---- MODULE Spec2Model ----
(***************************************************************************)
(* mb-forwarder: a Modbus-TCP gateway that forwards each request, by unit  *)
(* identifier, to one configured backend slave (forwarder.go).             *)
(*                                                                         *)
(* The gateway is built on two libraries whose behaviour is part of the    *)
(* program: tbrandon/mbserver (the ingress server: frame parsing, the      *)
(* function table, one goroutine per accepted connection feeding a single  *)
(* handler goroutine over requestChan) and goburrow/modbus (the backend    *)
(* client: argument validation, a transporter whose Send holds a mutex for *)
(* the whole round trip and connects lazily).  Their behaviour is modelled *)
(* at the places where forwarder.go calls them.                            *)
(*                                                                         *)
(* Specifications: Spec, the whole gateway; SpecCodec, the request path    *)
(* over many frames; SpecMonitor, the health monitor; SpecStop, the        *)
(* gateway with one client under fair scheduling; SpecConfig, the loading  *)
(* of configuration files (config.go); SpecPayload, the write-multiple     *)
(* handlers over every short payload; SpecBounds, the request path over    *)
(* frames of every length.                                                 *)
(***************************************************************************)
EXTENDS Integers, Sequences, FiniteSets, TLC

VARIABLES
    mainPc,     \* main goroutine (part_000 main, Start, Stop): [pc, todo]
    function,   \* s.server.function: function code -> registered handler
    clients,    \* s.clients: slaveID -> modbusClient (lastError, lastConn)
    rw,         \* s.clientsMux: [readers, writer, waiting]
    listening,  \* the ingress listener is open
    ctxDone,    \* s.ctx has been cancelled
    transport,  \* per slave: the handler's connection, "closed" or "open"
    mu,         \* per slave: holder of the transporter mutex, or "free"
    conns,      \* accepted ingress connections: [pc, frame]
    h,          \* the mbserver handler goroutine running the function handler
    mon,        \* the monitorConnections goroutine: [pc, todo, cur, log]
    config      \* C, the configuration (config.go), which s.config points to

vars == <<mainPc, function, clients, rw, listening, ctxDone, transport, mu,
          conns, h, mon, config>>

-----------------------------------------------------------------------------
(* Bounds of the model *)

NumConns == 2        \* ingress connections that may be accepted
MaxUnit == 3         \* unit identifiers 0..MaxUnit appear in frames
MaxByteCount == 2    \* byteCount field of write-multiple frames: 0..MaxByteCount
MaxPayloadLen == 2   \* bytes following the byteCount field: 0..MaxPayloadLen
MaxQuantity == 17    \* quantity field of the frames of PayloadFrames
MaxDataLen == 3      \* bytes following the byteCount field in PayloadFrames

-----------------------------------------------------------------------------
(* Bytes and 16-bit words *)

U16(hi, lo) == hi * 256 + lo
Hi(v) == (v \div 256) % 256
Lo(v) == v % 256
Byte(n) == n % 256
Hdr(a, v) == <<Hi(a), Lo(a), Hi(v), Lo(v)>>
Take(s, n) == SubSeq(s, 1, IF n < Len(s) THEN n ELSE Len(s))
BitSet(b, i) == (b \div (2 ^ i)) % 2 = 1

-----------------------------------------------------------------------------
(* Configuration: config.go.  Every configuration file of the model has   *)
(* the two slaves of the README example: slave 1 over TCP, slave 2 over    *)
(* RTU.  A field that the file leaves out has Go's zero value, 0 or "".    *)

Servers == (1 :> "tcp") @@ (2 :> "rtu")

Server(connType, addr, port, baudRate, dataBits, stopBits, parity, timeout) ==
    [ConnType |-> connType, Addr |-> addr, Port |-> port,
     BaudRate |-> baudRate, DataBits |-> dataBits, StopBits |-> stopBits,
     Parity |-> parity, Timeout |-> timeout]

Config(listenPort, servers) == [ListenPort |-> listenPort, Servers |-> servers]

\* var C Config: the zero value before loadConfig
ZeroConfig == Config(0, <<>>)

\* validateServer: its checks, and the server it has assigned the defaults
\* to.  The parameter is passed by value: that server is the function's own
\* copy.
validateServer(slaveID, server) ==
    IF slaveID < 1 \/ slaveID > 255 THEN [err |-> TRUE, server |-> server]
    ELSE IF server.ConnType = "" THEN [err |-> TRUE, server |-> server]
    ELSE IF server.ConnType # "tcp" /\ server.ConnType # "rtu"
    THEN [err |-> TRUE, server |-> server]
    ELSE IF server.Addr = "" THEN [err |-> TRUE, server |-> server]
    ELSE LET s1 == IF server.ConnType = "tcp"
                   THEN [server EXCEPT !.Port = IF @ <= 0 THEN 502 ELSE @]
                   ELSE [server EXCEPT
                            !.BaudRate = IF @ <= 0 THEN 9600 ELSE @,
                            !.DataBits = IF @ <= 0 THEN 8 ELSE @,
                            !.StopBits = IF @ <= 0 THEN 1 ELSE @,
                            !.Parity = IF @ = "" THEN "N" ELSE @]
             s2 == [s1 EXCEPT !.Timeout = IF @ <= 0 THEN 2 ELSE @]
         IN  [err |-> FALSE, server |-> s2]

\* validateConfig on C: the default of ListenPort is assigned to C; each
\* server is handed to validateServer as the copy the range loop made, and
\* only the error comes back.
validateConfig(C) ==
    LET C1 == [C EXCEPT !.ListenPort = IF @ <= 0 THEN 1602 ELSE @]
    IN  IF DOMAIN C1.Servers = {} THEN [err |-> TRUE, C |-> C1]
        ELSE IF \E slaveID \in DOMAIN C1.Servers :
                    validateServer(slaveID, C1.Servers[slaveID]).err
        THEN [err |-> TRUE, C |-> C1]
        ELSE [err |-> FALSE, C |-> C1]

\* The README's config.yaml.
ReadmeConfig ==
    Config(1602,
           (1 :> Server("tcp", "192.168.1.100", 502, 0, 0, 0, "", 5)) @@
           (2 :> Server("rtu", "/dev/ttyUSB0", 0, 9600, 8, 1, "N", 3)))

\* The README's config.yaml without its timeout lines.
NoTimeoutConfig ==
    Config(1602,
           (1 :> Server("tcp", "192.168.1.100", 502, 0, 0, 0, "", 0)) @@
           (2 :> Server("rtu", "/dev/ttyUSB0", 0, 9600, 8, 1, "N", 0)))

\* Configuration files: each optional field left out or set, the address
\* present or missing, and a file without servers.
ConfigFiles ==
    {Config(lp, (1 :> Server("tcp", a1, port, 0, 0, 0, "", t1)) @@
                (2 :> Server("rtu", a2, 0, baud, bits, bits, par, t2))) :
        lp \in {0, 5020}, a1 \in {"", "192.168.1.100"}, port \in {0, 1502},
        t1 \in {0, 5}, a2 \in {"", "/dev/ttyUSB0"}, baud \in {0, 19200},
        bits \in {0, 2}, par \in {"", "E"}, t2 \in {0, 3}}
    \cup {Config(1602, <<>>), ReadmeConfig, NoTimeoutConfig}

-----------------------------------------------------------------------------
(* Exceptions of mbserver, with their Modbus codes *)

ExceptionCode ==
    [Success |-> 0, IllegalFunction |-> 1, IllegalDataAddress |-> 2,
     IllegalDataValue |-> 3, SlaveDeviceFailure |-> 4, Acknowledge |-> 5,
     SlaveDeviceBusy |-> 6, NegativeAcknowledge |-> 7, MemoryParityError |-> 8,
     GatewayPathUnavailable |-> 10, GatewayTargetDeviceFailedtoRespond |-> 11]

NoData == <<>>
Response(data, exception) == [data |-> data, exception |-> exception]

-----------------------------------------------------------------------------
(* Frames.  An mbserver TCPFrame is Device (unit), Function and Data; its  *)
(* Bytes() are the 7-byte MBAP header, the function code and the data.     *)

Frame(unit, fn, data) == [unit |-> unit, fn |-> fn, data |-> data]
FrameBytesLen(frame) == 8 + Len(frame.data)

\* getSlaveID: byte 6 of the frame's bytes, or 0 when the frame is too short
getSlaveID(frame) ==
    IF FrameBytesLen(frame) < 7 THEN 0 ELSE frame.unit

ParseError == [err |-> TRUE, slaveID |-> 0, address |-> 0, quantity |-> 0,
               data |-> <<>>]

\* Mutant of parseRequest: the configuration check is left out.
parseRequest_NoConfigCheck(frame) ==
    LET data == frame.data
        frameSlaveID == getSlaveID(frame)
    IN  IF Len(data) < 4 THEN ParseError
        ELSE IF frameSlaveID = 0 THEN ParseError
        ELSE [err |-> FALSE, slaveID |-> frameSlaveID,
              address |-> U16(data[1], data[2]),
              quantity |-> U16(data[3], data[4]),
              data |-> <<>>]

\* parseRequest: length, slave and configuration checks, then two u16 fields
parseRequest(frame) ==
    LET data == frame.data
        frameSlaveID == getSlaveID(frame)
    IN  IF Len(data) < 4 THEN ParseError
        ELSE IF frameSlaveID = 0 THEN ParseError
        ELSE IF frameSlaveID \notin DOMAIN Servers THEN ParseError
        ELSE [err |-> FALSE, slaveID |-> frameSlaveID,
              address |-> U16(data[1], data[2]),
              quantity |-> U16(data[3], data[4]),
              data |-> <<>>]

\* parseWriteSingleRequest: as parseRequest, the second field being the value
parseWriteSingleRequest(frame) ==
    LET data == frame.data
        frameSlaveID == getSlaveID(frame)
    IN  IF Len(data) < 4 THEN ParseError
        ELSE IF frameSlaveID = 0 THEN ParseError
        ELSE IF frameSlaveID \notin DOMAIN Servers THEN ParseError
        ELSE [err |-> FALSE, slaveID |-> frameSlaveID,
              address |-> U16(data[1], data[2]),
              quantity |-> U16(data[3], data[4]),
              data |-> <<>>]

\* Mutant of parseWriteMultipleRequest: the first length check asks for the
\* five fixed bytes only.
parseWriteMultipleRequest_Min5(frame) ==
    LET frameData == frame.data
        frameSlaveID == getSlaveID(frame)
    IN  IF Len(frameData) < 5 THEN ParseError
        ELSE IF frameSlaveID = 0 THEN ParseError
        ELSE IF frameSlaveID \notin DOMAIN Servers THEN ParseError
        ELSE LET byteCount == frameData[5]
             IN  IF Len(frameData) < 5 + byteCount THEN ParseError
                 ELSE [err |-> FALSE, slaveID |-> frameSlaveID,
                       address |-> U16(frameData[1], frameData[2]),
                       quantity |-> U16(frameData[3], frameData[4]),
                       data |-> SubSeq(frameData, 6, 5 + byteCount)]

\* parseWriteMultipleRequest: at least 6 bytes, then 5+byteCount bytes
parseWriteMultipleRequest(frame) ==
    LET frameData == frame.data
        frameSlaveID == getSlaveID(frame)
    IN  IF Len(frameData) < 6 THEN ParseError
        ELSE IF frameSlaveID = 0 THEN ParseError
        ELSE IF frameSlaveID \notin DOMAIN Servers THEN ParseError
        ELSE LET byteCount == frameData[5]
             IN  IF Len(frameData) < 5 + byteCount THEN ParseError
                 ELSE [err |-> FALSE, slaveID |-> frameSlaveID,
                       address |-> U16(frameData[1], frameData[2]),
                       quantity |-> U16(frameData[3], frameData[4]),
                       data |-> SubSeq(frameData, 6, 5 + byteCount)]

-----------------------------------------------------------------------------
(* registerHandlers: the function codes and the handler registered for each *)

\* Mutant of registerHandlers: the registration of code 16 is missing.
registerHandlers_Missing16 ==
    (1 :> "readCoils") @@ (2 :> "readDiscreteInputs") @@
    (3 :> "readHoldingRegisters") @@ (4 :> "readInputRegisters") @@
    (5 :> "writeSingleCoil") @@ (6 :> "writeSingleRegister") @@
    (15 :> "writeMultipleCoils")

registerHandlers ==
    (1 :> "readCoils") @@ (2 :> "readDiscreteInputs") @@
    (3 :> "readHoldingRegisters") @@ (4 :> "readInputRegisters") @@
    (5 :> "writeSingleCoil") @@ (6 :> "writeSingleRegister") @@
    (15 :> "writeMultipleCoils") @@ (16 :> "writeMultipleRegisters")

\* Function codes that frames of the model carry: the eight registered ones
\* and some that no handler is registered for.
FunctionCodes == {0, 1, 2, 3, 4, 5, 6, 7, 15, 16, 17, 255}

\* mbserver.NewServer: its own in-memory handlers for the same eight codes
\* ("local"), nil for every other code; RegisterFunctionHandler overwrites.
NewServerFunctions ==
    [fn \in FunctionCodes |->
        IF fn \in {1, 2, 3, 4, 5, 6, 15, 16} THEN "local" ELSE "nil"]

RegisteredFunctions ==
    [fn \in FunctionCodes |->
        IF fn \in DOMAIN registerHandlers THEN registerHandlers[fn]
        ELSE NewServerFunctions[fn]]

ForwardingHandlers ==
    {"readCoils", "readDiscreteInputs", "readHoldingRegisters",
     "readInputRegisters", "writeSingleCoil", "writeSingleRegister",
     "writeMultipleCoils", "writeMultipleRegisters"}

\* The parser each handler starts with.
parse(handler, frame) ==
    CASE handler \in {"readCoils", "readDiscreteInputs",
                      "readHoldingRegisters", "readInputRegisters"} ->
            parseRequest(frame)
      [] handler \in {"writeSingleCoil", "writeSingleRegister"} ->
            parseWriteSingleRequest(frame)
      [] OTHER -> parseWriteMultipleRequest(frame)

\* Every handler answers a parse error with IllegalDataAddress.
ParseErrorException == "IllegalDataAddress"
\* Every handler answers a failed getClient with SlaveDeviceFailure.
GetClientErrorException == "SlaveDeviceFailure"
\* Mutants of BackendErrorException: another exception for a failed call.
BackendErrorException_IllegalDataAddress == "IllegalDataAddress"
BackendErrorException_Gateway == "GatewayTargetDeviceFailedtoRespond"

\* Every handler answers a failed backend call with SlaveDeviceFailure.
BackendErrorException == "SlaveDeviceFailure"

-----------------------------------------------------------------------------
(* Conversions of the write handlers *)

\* Mutant of writeSingleCoilValue: any non-zero value is forwarded as ON.
writeSingleCoilValue_Normalised(value) == IF value # 0 THEN 65280 ELSE 0

\* writeSingleCoil: the value handed to client.WriteSingleCoil
writeSingleCoilValue(value) == value

\* writeMultipleCoils: data -> []bool of length quantity (index from 0)
coils(quantity, data) ==
    [i \in 0..(quantity - 1) |->
        LET byteIndex == i \div 8
            bitIndex == i % 8
        IN  IF byteIndex < Len(data)
            THEN BitSet(data[byteIndex + 1], bitIndex)
            ELSE FALSE]

RECURSIVE PackByte(_, _, _, _)
PackByte(cs, quantity, b, k) ==
    IF k > 7 THEN 0
    ELSE (IF 8 * b + k < quantity /\ cs[8 * b + k] THEN 2 ^ k ELSE 0)
         + PackByte(cs, quantity, b, k + 1)

\* Mutant of coilBytes: the request's bytes are handed on as they are,
\* padded with zero bytes.
coilBytes_CopyBytes(quantity, data) ==
    [b \in 1..((quantity + 7) \div 8) |->
        IF b <= Len(data) THEN data[b] ELSE 0]

\* writeMultipleCoils: []bool -> packed bytes, (quantity+7)/8 of them
coilBytes(quantity, data) ==
    LET cs == coils(quantity, data)
    IN  [b \in 1..((quantity + 7) \div 8) |-> PackByte(cs, quantity, b - 1, 0)]

\* writeMultipleRegisters: data -> []uint16 of length quantity (index from 0)
registers(quantity, data) ==
    [i \in 0..(quantity - 1) |->
        IF i * 2 + 1 < Len(data)
        THEN U16(data[i * 2 + 1], data[i * 2 + 2])
        ELSE 0]

\* Mutant of registerBytes: the request's bytes are handed on, cut to
\* quantity*2 bytes but not padded.
registerBytes_NotPadded(quantity, data) ==
    Take(data, quantity * 2)

\* writeMultipleRegisters: []uint16 -> big-endian bytes, quantity*2 of them
registerBytes(quantity, data) ==
    LET rs == registers(quantity, data)
    IN  [j \in 1..(quantity * 2) |->
            IF j % 2 = 1 THEN Hi(rs[(j - 1) \div 2]) ELSE Lo(rs[(j - 1) \div 2])]

-----------------------------------------------------------------------------
(* The backend call a handler makes after parsing *)

Call(op, address, quantity, payload) ==
    [op |-> op, address |-> address, quantity |-> quantity, payload |-> payload]
NoCall == Call("none", 0, 0, <<>>)

\* goburrow/modbus client: the argument checks made before anything is sent
ClientAccepts(op, quantity) ==
    CASE op \in {"ReadCoils", "ReadDiscreteInputs"} ->
            quantity >= 1 /\ quantity <= 2000
      [] op \in {"ReadHoldingRegisters", "ReadInputRegisters"} ->
            quantity >= 1 /\ quantity <= 125
      [] op = "WriteSingleCoil" -> quantity \in {65280, 0}
      [] op = "WriteSingleRegister" -> TRUE
      [] op = "WriteMultipleCoils" -> quantity >= 1 /\ quantity <= 1968
      [] op = "WriteMultipleRegisters" -> quantity >= 1 /\ quantity <= 123
      [] OTHER -> FALSE

\* The client method each handler calls, with its arguments.
backendCall(handler, p) ==
    CASE handler = "readCoils" -> Call("ReadCoils", p.address, p.quantity, <<>>)
      [] handler = "readDiscreteInputs" ->
            Call("ReadDiscreteInputs", p.address, p.quantity, <<>>)
      [] handler = "readHoldingRegisters" ->
            Call("ReadHoldingRegisters", p.address, p.quantity, <<>>)
      [] handler = "readInputRegisters" ->
            Call("ReadInputRegisters", p.address, p.quantity, <<>>)
      [] handler = "writeSingleCoil" ->
            Call("WriteSingleCoil", p.address, writeSingleCoilValue(p.quantity), <<>>)
      [] handler = "writeSingleRegister" ->
            Call("WriteSingleRegister", p.address, p.quantity, <<>>)
      [] handler = "writeMultipleCoils" ->
            Call("WriteMultipleCoils", p.address, p.quantity,
                 IF ClientAccepts("WriteMultipleCoils", p.quantity)
                 THEN coilBytes(p.quantity, p.data) ELSE <<>>)
      [] handler = "writeMultipleRegisters" ->
            Call("WriteMultipleRegisters", p.address, p.quantity,
                 IF ClientAccepts("WriteMultipleRegisters", p.quantity)
                 THEN registerBytes(p.quantity, p.data) ELSE <<>>)

-----------------------------------------------------------------------------
(* The backend device: what a conforming slave returns to the client       *)

\* Contents of the device's memory, as bytes: two images.
DeviceImages == {1, 2}
DeviceByte(image, i) ==
    IF image = 1 THEN <<0, 1, 0, 255>>[((i - 1) % 4) + 1]
    ELSE (i * 37 + 5) % 256

\* results of a successful client call (the response data after its byte count)
BackendResults(call, image) ==
    CASE call.op \in {"ReadCoils", "ReadDiscreteInputs"} ->
            [i \in 1..((call.quantity + 7) \div 8) |-> DeviceByte(image, i)]
      [] call.op \in {"ReadHoldingRegisters", "ReadInputRegisters"} ->
            [i \in 1..(2 * call.quantity) |-> DeviceByte(image, i)]
      [] call.op \in {"WriteSingleCoil", "WriteSingleRegister"} ->
            Hdr(call.address, call.quantity)
      [] OTHER -> Hdr(call.address, call.quantity)

\* Ways a round trip fails once the request is written: an I/O error, a
\* timeout, an exception response of the slave.
BackendErrors == {"transport error", "timeout", "exception"}

-----------------------------------------------------------------------------
(* Response construction of the handlers after a successful backend call   *)

\* Mutant of readBitsResponse: the byte count of the register handlers.
readBitsResponse_Doubled(results) ==
    <<Byte(Len(results) * 2)>> \o results

\* readCoils, readDiscreteInputs: byte count, then the packed bytes
readBitsResponse(results) ==
    <<Byte(Len(results))>> \o results

\* readHoldingRegisters, readInputRegisters: response[0] = byte(len(results)*2)
readRegistersResponse(results) ==
    <<Byte(Len(results) * 2)>> \o results

\* writeSingleCoil, writeSingleRegister: frame.GetData()[0:4]
writeSingleResponse(frameData) ==
    SubSeq(frameData, 1, 4)

\* writeMultipleCoils, writeMultipleRegisters: frameData[0 : quantity*4],
\* clipped to the length of frameData
writeMultipleResponse(frameData, quantity) ==
    LET maxLen == Len(frameData)
    IN  IF quantity * 4 > maxLen
        THEN SubSeq(frameData, 1, maxLen)
        ELSE SubSeq(frameData, 1, quantity * 4)

successResponse(handler, frame, p, results) ==
    CASE handler \in {"readCoils", "readDiscreteInputs"} ->
            Response(readBitsResponse(results), "Success")
      [] handler \in {"readHoldingRegisters", "readInputRegisters"} ->
            Response(readRegistersResponse(results), "Success")
      [] handler \in {"writeSingleCoil", "writeSingleRegister"} ->
            Response(writeSingleResponse(frame.data), "Success")
      [] OTHER ->
            Response(writeMultipleResponse(frame.data, p.quantity), "Success")

\* mbserver SetException: the function code with its high bit set
ExceptionFunction(fn) == IF fn >= 128 THEN fn ELSE fn + 128

\* mbserver handle: the PDU written back to the client
ResponsePDU(fn, resp) ==
    IF resp.exception = "Success" THEN <<fn>> \o resp.data
    ELSE <<ExceptionFunction(fn), ExceptionCode[resp.exception]>>

-----------------------------------------------------------------------------
(* Frames sent by Modbus-TCP clients.  mbserver only delivers frames with  *)
(* at least one data byte (a packet has at least 9 bytes).                 *)

Units == 0..MaxUnit
Addresses == {0, 4660}
Words == {0, 1, 2, 7, 8, 9, 123, 125, 126, 1968, 1969, 2000, 2001, 65280}
Payload(n) == [i \in 1..n |-> IF i % 2 = 1 THEN 165 ELSE 90]

FrameDatas ==
    {Take(Hdr(a, w), n) : a \in Addresses, w \in Words, n \in 1..4}
    \cup {Hdr(4660, w) \o <<bc>> \o Payload(n) :
            w \in Words, bc \in 0..MaxByteCount, n \in 0..MaxPayloadLen}

CodecFrames ==
    {Frame(u, fn, d) : u \in Units, fn \in FunctionCodes, d \in FrameDatas}

ConcFrames ==
    {Frame(1, 3, Hdr(0, 2)), Frame(2, 1, Hdr(0, 9)), Frame(3, 7, Hdr(0, 1))}

-----------------------------------------------------------------------------
(* State when main begins *)

NoFrame == Frame(0, 0, <<>>)
NoResp == Response(NoData, "none")
Conns == 1..NumConns

HIdle ==
    [pc |-> "idle", conn |-> 0, frame |-> NoFrame, handler |-> "nil",
     p |-> ParseError, call |-> NoCall, outcome |-> "none", results |-> <<>>,
     resp |-> NoResp, sent |-> <<>>]

MonOff == [pc |-> "off", todo |-> {}, cur |-> 0, log |-> "none"]
RwFree == [readers |-> {}, writer |-> FALSE, waiting |-> FALSE]

Init ==
    /\ mainPc = [pc |-> "main", todo |-> {}]
    /\ config = ZeroConfig
    /\ function = [fn \in FunctionCodes |-> "nil"]
    /\ clients = <<>>
    /\ rw = RwFree
    /\ listening = FALSE
    /\ ctxDone = FALSE
    /\ transport = [s \in DOMAIN Servers |-> "closed"]
    /\ mu = [s \in DOMAIN Servers |-> "free"]
    /\ conns = [c \in Conns |-> [pc |-> "none", frame |-> NoFrame]]
    /\ h = HIdle
    /\ mon = MonOff

\* The process is running: main has neither returned nor died in log.Fatalf.
Alive == mainPc.pc \notin {"exited", "fatal"}

-----------------------------------------------------------------------------
(* Start *)

\* main: loadConfig reads one of the files into C and validates it; a
\* failure ends the process in log.Fatalf; then NewForwarder(&C)
LoadConfig(Files) ==
    /\ mainPc.pc = "main"
    /\ \E file \in Files :
            LET r == validateConfig(file)
            IN  /\ config' = r.C
                /\ mainPc' = [pc |-> IF r.err THEN "fatal" ELSE "start",
                              todo |-> {}]
    /\ UNCHANGED <<function, clients, rw, listening, ctxDone, transport, mu,
                   conns, h, mon>>

\* createClient: a handler per connection type, nil for any other type; the
\* handler's Timeout is the configured number of seconds.  The library's
\* constructors open no connection.  SlaveId is the unit identifier the
\* handler puts on every frame it sends.
\* Mutant of createClient: every handler is given the unit identifier 1.
createClient_SlaveIdOne(slaveID, server) ==
    IF server.ConnType \in {"tcp", "TCP", "rtu", "RTU"}
    THEN [err |-> FALSE,
          client |-> [connType |-> server.ConnType, timeout |-> server.Timeout,
                      SlaveId |-> 1,
                      lastError |-> "nil", lastConn |-> 0]]
    ELSE [err |-> TRUE, client |-> <<>>]

createClient(slaveID, server) ==
    IF server.ConnType \in {"tcp", "TCP", "rtu", "RTU"}
    THEN [err |-> FALSE,
          client |-> [connType |-> server.ConnType, timeout |-> server.Timeout,
                      SlaveId |-> slaveID,
                      lastError |-> "nil", lastConn |-> 0]]
    ELSE [err |-> TRUE, client |-> <<>>]

\* Start: NewServer and registerHandlers
StartRegister ==
    /\ mainPc.pc = "start"
    /\ function' = RegisteredFunctions
    /\ mainPc' = [pc |-> "initClients", todo |-> DOMAIN config.Servers]
    /\ UNCHANGED <<clients, rw, listening, ctxDone, transport, mu, conns, h,
                   mon, config>>

\* initClients: one iteration of the loop over config.Servers (map order)
StartInitClient(slaveID) ==
    /\ mainPc.pc = "initClients"
    /\ slaveID \in mainPc.todo
    /\ rw.readers = {} /\ ~rw.writer
    /\ LET r == createClient(slaveID, config.Servers[slaveID])
       IN  IF r.err
           THEN /\ mainPc' = [pc |-> "fatal", todo |-> {}]
                /\ UNCHANGED clients
           ELSE /\ clients' = (slaveID :> r.client) @@ clients
                /\ mainPc' = [mainPc EXCEPT !.todo = @ \ {slaveID}]
    /\ UNCHANGED <<function, rw, listening, ctxDone, transport, mu, conns, h,
                   mon, config>>

\* Mutant of StartListen: the listener is opened without waiting for the
\* end of initClients.
StartListen_BeforeInit(ok) ==
    /\ mainPc.pc = "initClients"
    /\ IF ok
       THEN /\ listening' = TRUE
            /\ mainPc' = [pc |-> "goMonitor", todo |-> {}]
       ELSE /\ mainPc' = [pc |-> "fatal", todo |-> {}]
            /\ UNCHANGED listening
    /\ UNCHANGED <<function, clients, rw, ctxDone, transport, mu, conns, h,
                   mon, config>>

\* Start: server.ListenTCP, which may fail to bind
StartListen(ok) ==
    /\ mainPc.pc = "initClients"
    /\ mainPc.todo = {}
    /\ IF ok
       THEN /\ listening' = TRUE
            /\ mainPc' = [pc |-> "goMonitor", todo |-> {}]
       ELSE /\ mainPc' = [pc |-> "fatal", todo |-> {}]
            /\ UNCHANGED listening
    /\ UNCHANGED <<function, clients, rw, ctxDone, transport, mu, conns, h,
                   mon, config>>

\* Start: go s.monitorConnections(), then return nil
StartMonitor ==
    /\ mainPc.pc = "goMonitor"
    /\ mon' = [MonOff EXCEPT !.pc = "select"]
    /\ mainPc' = [pc |-> "running", todo |-> {}]
    /\ UNCHANGED <<function, clients, rw, listening, ctxDone, transport, mu,
                   conns, h, config>>

-----------------------------------------------------------------------------
(* clientsMux, a sync.RWMutex: a waiting writer holds back new readers     *)

CanRLock == ~rw.writer /\ ~rw.waiting
CanLock == ~rw.writer /\ rw.readers = {}

\* Mutant of transportAfterCall: a failed call closes the connection.
transportAfterCall_CloseOnError(conn, err) ==
    IF err # "nil" THEN "closed" ELSE conn

\* The connection of a handler after a client call that returned err ("nil"
\* for none): the handlers and checkConnections log the error and return;
\* neither closes nor replaces the handler.
transportAfterCall(conn, err) == conn

\* Mutant of TransporterFree: Send and Close do not wait for the mutex.
TransporterFree_NoLock(slaveID) == TRUE

\* The transporter mutex of a slave's handler is free (goburrow Send/Close).
TransporterFree(slaveID) == mu[slaveID] = "free"

-----------------------------------------------------------------------------
(* Ingress: connection goroutines and the handler goroutine of mbserver    *)

\* accept: a client connects while the listener is open
Accept(c) ==
    /\ Alive /\ listening
    /\ conns[c].pc = "none"
    /\ conns' = [conns EXCEPT ![c] = [pc |-> "idle", frame |-> NoFrame]]
    /\ UNCHANGED <<mainPc, function, clients, rw, listening, ctxDone,
                   transport, mu, h, mon, config>>

\* A connection goroutine reads a frame, one of Frames, and offers it on
\* requestChan.
ConnRead(c, Frames) ==
    /\ Alive
    /\ conns[c].pc = "idle"
    /\ \E frame \in Frames :
            conns' = [conns EXCEPT ![c] = [pc |-> "queued", frame |-> frame]]
    /\ UNCHANGED <<mainPc, function, clients, rw, listening, ctxDone,
                   transport, mu, h, mon, config>>

\* mbserver handle: dispatch on the function code; the handler parses.
\* A code without a handler is answered with IllegalFunction; a code left
\* with the library's own handler would be served from the library's memory,
\* without any backend.
HandlerReceive(c) ==
    /\ Alive
    /\ h.pc = "idle"
    /\ conns[c].pc = "queued"
    /\ conns' = [conns EXCEPT ![c] = [pc |-> "waiting", frame |-> NoFrame]]
    /\ LET frame == conns[c].frame
           handler == function[frame.fn]
           base == [HIdle EXCEPT !.conn = c, !.frame = frame, !.handler = handler]
       IN  IF handler = "nil"
           THEN h' = [base EXCEPT !.pc = "write",
                                  !.resp = Response(NoData, "IllegalFunction")]
           ELSE IF handler = "local"
           THEN h' = [base EXCEPT !.pc = "write",
                                  !.resp = Response(<<0>>, "Success")]
           ELSE LET p == parse(handler, frame)
                IN  IF p.err
                    THEN h' = [base EXCEPT !.pc = "write",
                                 !.resp = Response(NoData, ParseErrorException)]
                    ELSE h' = [base EXCEPT !.pc = "getClient", !.p = p]
    /\ UNCHANGED <<mainPc, function, clients, rw, listening, ctxDone,
                   transport, mu, mon, config>>

\* getClient under RLock, then the conversion of the data and the client
\* call up to the client's own argument check
GetClient ==
    /\ Alive
    /\ h.pc = "getClient"
    /\ CanRLock
    /\ IF h.p.slaveID \notin DOMAIN clients
       THEN h' = [h EXCEPT !.pc = "write",
                           !.resp = Response(NoData, GetClientErrorException)]
       ELSE LET call == backendCall(h.handler, h.p)
            IN  IF ClientAccepts(call.op, call.quantity)
                THEN h' = [h EXCEPT !.pc = "send", !.call = call]
                ELSE h' = [h EXCEPT !.pc = "write", !.call = call,
                             !.outcome = "invalid argument",
                             !.resp = Response(NoData, BackendErrorException)]
    /\ UNCHANGED <<mainPc, function, clients, rw, listening, ctxDone,
                   transport, mu, conns, mon, config>>

\* transporter Send: take the mutex, connect if not connected, write the ADU
HandlerSend(connected) ==
    /\ Alive
    /\ h.pc = "send"
    /\ TransporterFree(h.p.slaveID)
    /\ IF transport[h.p.slaveID] = "closed" /\ ~connected
       THEN /\ h' = [h EXCEPT !.pc = "write", !.outcome = "dial error",
                       !.resp = Response(NoData, BackendErrorException)]
            /\ UNCHANGED <<transport, mu>>
       ELSE /\ transport' = [transport EXCEPT ![h.p.slaveID] = "open"]
            /\ mu' = [mu EXCEPT ![h.p.slaveID] = "handler"]
            /\ h' = [h EXCEPT !.pc = "roundtrip",
                       !.sent = Append(@, [slaveID |-> h.p.slaveID,
                                           unit |-> clients[h.p.slaveID].SlaveId,
                                           call |-> h.call])]
    /\ UNCHANGED <<mainPc, function, clients, rw, listening, ctxDone, conns,
                   mon, config>>

\* transporter Send returns: the slave's answer, or an error; then the rest
\* of the handler
HandlerRoundTrip(outcome, image) ==
    /\ Alive
    /\ h.pc = "roundtrip"
    /\ outcome \in {"ok"} \cup BackendErrors
    /\ mu' = [mu EXCEPT ![h.p.slaveID] = "free"]
    /\ transport' = [transport EXCEPT ![h.p.slaveID] =
                        transportAfterCall(@, IF outcome = "ok" THEN "nil"
                                              ELSE outcome)]
    /\ IF outcome = "ok"
       THEN LET results == BackendResults(h.call, image)
            IN  h' = [h EXCEPT !.pc = "write", !.outcome = "ok",
                        !.results = results,
                        !.resp = successResponse(h.handler, h.frame, h.p,
                                                 results)]
       ELSE h' = [h EXCEPT !.pc = "write", !.outcome = outcome,
                    !.resp = Response(NoData, BackendErrorException)]
    /\ UNCHANGED <<mainPc, function, clients, rw, listening, ctxDone, conns,
                   mon, config>>

\* mbserver handler: request.conn.Write(response.Bytes())
HandlerWrite ==
    /\ Alive
    /\ h.pc = "write"
    /\ conns' = [conns EXCEPT ![h.conn] = [pc |-> "idle", frame |-> NoFrame]]
    /\ h' = HIdle
    /\ UNCHANGED <<mainPc, function, clients, rw, listening, ctxDone,
                   transport, mu, mon, config>>

-----------------------------------------------------------------------------
(* The health monitor: monitorConnections and checkConnections             *)

\* Mutant of checkConnectionsLog: every failed probe is logged.
checkConnectionsLog_EveryError(client, err) ==
    IF err # "nil" THEN "connection exception"
    ELSE IF client.lastError # "nil" THEN "connection restored"
    ELSE "none"

\* checkConnections, the body of its loop: the line it logs after a probe
\* whose error is err ("nil" for none), "none" when it logs nothing
checkConnectionsLog(client, err) ==
    IF err # "nil"
    THEN IF client.lastError = "nil" \/ client.lastError # err
         THEN "connection exception"
         ELSE "none"
    ELSE IF client.lastError # "nil" THEN "connection restored"
    ELSE "none"

\* checkConnections, the body of its loop: the client after a probe whose
\* error is err ("nil" for none)
checkConnectionsUpdate(client, err) ==
    IF err # "nil"
    THEN IF client.lastError = "nil" \/ client.lastError # err
         THEN [client EXCEPT !.lastError = err]
         ELSE client
    ELSE [client EXCEPT !.lastError = "nil", !.lastConn = 1]

\* monitorConnections: the select takes a tick of the ticker
MonTick ==
    /\ Alive
    /\ mon.pc = "select"
    /\ mon' = [mon EXCEPT !.pc = "rlock"]
    /\ UNCHANGED <<mainPc, function, clients, rw, listening, ctxDone,
                   transport, mu, conns, h, config>>

\* monitorConnections: the select takes ctx.Done() and the loop returns
MonExit ==
    /\ Alive
    /\ mon.pc = "select"
    /\ ctxDone
    /\ mon' = [mon EXCEPT !.pc = "exited"]
    /\ UNCHANGED <<mainPc, function, clients, rw, listening, ctxDone,
                   transport, mu, conns, h, config>>

\* checkConnections: clientsMux.RLock(), held for the whole sweep
MonRLock ==
    /\ Alive
    /\ mon.pc = "rlock"
    /\ CanRLock
    /\ rw' = [rw EXCEPT !.readers = @ \cup {"monitor"}]
    /\ mon' = [MonOff EXCEPT !.pc = "sweep", !.todo = DOMAIN clients]
    /\ UNCHANGED <<mainPc, function, clients, listening, ctxDone, transport,
                   mu, conns, h, config>>

\* checkConnections: ReadHoldingRegisters(1, 1) on the next client of the
\* range (map order); transporter Send takes the mutex and connects
MonProbeSend(slaveID, connected) ==
    /\ Alive
    /\ mon.pc = "sweep"
    /\ slaveID \in mon.todo
    /\ TransporterFree(slaveID)
    /\ IF transport[slaveID] = "closed" /\ ~connected
       THEN /\ clients' = [clients EXCEPT ![slaveID] =
                              checkConnectionsUpdate(@, "dial error")]
            /\ mon' = [mon EXCEPT !.todo = @ \ {slaveID},
                         !.log = checkConnectionsLog(clients[slaveID],
                                                     "dial error")]
            /\ UNCHANGED <<transport, mu>>
       ELSE /\ transport' = [transport EXCEPT ![slaveID] = "open"]
            /\ mu' = [mu EXCEPT ![slaveID] = "monitor"]
            /\ mon' = [mon EXCEPT !.pc = "probe", !.cur = slaveID,
                                  !.log = "none"]
            /\ UNCHANGED clients
    /\ UNCHANGED <<mainPc, function, rw, listening, ctxDone, conns, h, config>>

\* checkConnections: the probe returns; lastError and lastConn are updated
MonProbeDone(outcome) ==
    /\ Alive
    /\ mon.pc = "probe"
    /\ outcome \in {"ok"} \cup BackendErrors
    /\ mu' = [mu EXCEPT ![mon.cur] = "free"]
    /\ LET err == IF outcome = "ok" THEN "nil" ELSE outcome
       IN  /\ transport' = [transport EXCEPT ![mon.cur] =
                               transportAfterCall(@, err)]
           /\ clients' = [clients EXCEPT ![mon.cur] =
                             checkConnectionsUpdate(@, err)]
           /\ mon' = [pc |-> "sweep", todo |-> mon.todo \ {mon.cur},
                      cur |-> 0,
                      log |-> checkConnectionsLog(clients[mon.cur], err)]
    /\ UNCHANGED <<mainPc, function, rw, listening, ctxDone, conns, h, config>>

\* checkConnections returns: the deferred RUnlock
MonSweepEnd ==
    /\ Alive
    /\ mon.pc = "sweep"
    /\ mon.todo = {}
    /\ rw' = [rw EXCEPT !.readers = @ \ {"monitor"}]
    /\ mon' = [MonOff EXCEPT !.pc = "select"]
    /\ UNCHANGED <<mainPc, function, clients, listening, ctxDone, transport,
                   mu, conns, h, config>>

-----------------------------------------------------------------------------
(* The client library's idle timer.  NewTCPClientHandler and               *)
(* NewRTUClientHandler give the handler an IdleTimeout (60 s) that          *)
(* createClient leaves as it is: every Send restarts a timer, and when it   *)
(* fires with the connection unused for that long the library takes the     *)
(* transporter mutex and closes the connection; the next Send dials again.  *)

IdleClose(slaveID) ==
    /\ Alive
    /\ slaveID \in DOMAIN clients
    /\ transport[slaveID] = "open"
    /\ TransporterFree(slaveID)
    /\ transport' = [transport EXCEPT ![slaveID] = "closed"]
    /\ UNCHANGED <<mainPc, function, clients, rw, listening, ctxDone, mu,
                   conns, h, mon, config>>

-----------------------------------------------------------------------------
(* Stop, called by main after a signal *)

\* Stop: s.cancel()
StopCancel ==
    /\ mainPc.pc = "running"
    /\ ctxDone' = TRUE
    /\ mainPc' = [pc |-> "closeServer", todo |-> {}]
    /\ UNCHANGED <<function, clients, rw, listening, transport, mu, conns, h,
                   mon, config>>

\* Stop: s.server.Close() closes the listener; then clientsMux.Lock() is
\* requested
StopCloseServer ==
    /\ mainPc.pc = "closeServer"
    /\ listening' = FALSE
    /\ rw' = [rw EXCEPT !.waiting = TRUE]
    /\ mainPc' = [pc |-> "lock", todo |-> {}]
    /\ UNCHANGED <<function, clients, ctxDone, transport, mu, conns, h, mon,
                   config>>

\* Stop: clientsMux.Lock() is granted once no reader holds the lock
StopLock ==
    /\ mainPc.pc = "lock"
    /\ CanLock
    /\ rw' = [rw EXCEPT !.writer = TRUE, !.waiting = FALSE]
    /\ mainPc' = [pc |-> "closing", todo |-> DOMAIN clients]
    /\ UNCHANGED <<function, clients, listening, ctxDone, transport, mu,
                   conns, h, mon, config>>

\* Stop: Close() of one client's handler (map order); Close takes the
\* transporter mutex
StopClose(slaveID) ==
    /\ mainPc.pc = "closing"
    /\ slaveID \in mainPc.todo
    /\ TransporterFree(slaveID)
    /\ transport' = [transport EXCEPT ![slaveID] = "closed"]
    /\ mainPc' = [mainPc EXCEPT !.todo = @ \ {slaveID}]
    /\ UNCHANGED <<function, clients, rw, listening, ctxDone, mu, conns, h,
                   mon, config>>

\* Stop returns: the deferred Unlock
StopUnlock ==
    /\ mainPc.pc = "closing"
    /\ mainPc.todo = {}
    /\ rw' = [rw EXCEPT !.writer = FALSE]
    /\ mainPc' = [pc |-> "stopped", todo |-> {}]
    /\ UNCHANGED <<function, clients, listening, ctxDone, transport, mu,
                   conns, h, mon, config>>

\* main returns after Stop: the process ends
Exit ==
    /\ mainPc.pc = "stopped"
    /\ mainPc' = [pc |-> "exited", todo |-> {}]
    /\ UNCHANGED <<function, clients, rw, listening, ctxDone, transport, mu,
                   conns, h, mon, config>>

-----------------------------------------------------------------------------
(* Specifications *)

StartNext ==
    \/ StartRegister
    \/ \E slaveID \in DOMAIN Servers : StartInitClient(slaveID)
    \/ \E ok \in BOOLEAN : StartListen(ok)
    \/ StartMonitor

StopNext ==
    \/ StopCancel
    \/ StopCloseServer
    \/ StopLock
    \/ \E slaveID \in DOMAIN Servers : StopClose(slaveID)
    \/ StopUnlock
    \/ Exit

\* Outcomes of a round trip in the whole-gateway specification.
ConcOutcomes == {"ok", "timeout"}

\* The whole gateway: every goroutine, a few frames and outcomes, over runs
\* in which no connection stays idle for the library's idle timeout.
Next ==
    \/ LoadConfig({ReadmeConfig})
    \/ StartNext
    \/ \E c \in Conns : Accept(c)
    \/ \E c \in Conns : ConnRead(c, ConcFrames)
    \/ \E c \in Conns : HandlerReceive(c)
    \/ GetClient
    \/ \E connected \in BOOLEAN : HandlerSend(connected)
    \/ \E outcome \in ConcOutcomes : HandlerRoundTrip(outcome, 1)
    \/ HandlerWrite
    \/ MonTick
    \/ MonExit
    \/ MonRLock
    \/ \E slaveID \in DOMAIN Servers, connected \in BOOLEAN :
            MonProbeSend(slaveID, connected)
    \/ \E outcome \in ConcOutcomes : MonProbeDone(outcome)
    \/ MonSweepEnd
    \/ StopNext

Spec == Init /\ [][Next]_vars

\* The request path alone, on one connection, over every frame of
\* CodecFrames, every outcome of the round trip and every device image.
NextCodec ==
    \/ LoadConfig({ReadmeConfig})
    \/ StartNext
    \/ Accept(1)
    \/ ConnRead(1, CodecFrames)
    \/ HandlerReceive(1)
    \/ GetClient
    \/ \E connected \in BOOLEAN : HandlerSend(connected)
    \/ \E outcome \in {"ok"} \cup BackendErrors, image \in DeviceImages :
            HandlerRoundTrip(outcome, image)
    \/ HandlerWrite

SpecCodec == Init /\ [][NextCodec]_vars

\* Write-multiple requests to slave 1: every quantity up to MaxQuantity,
\* every byteCount up to MaxDataLen, and after it every sequence of up to
\* MaxDataLen bytes drawn from DataBytes.
DataBytes == {0, 165, 255}
DataSeqs == UNION {[1..n -> DataBytes] : n \in 0..MaxDataLen}
PayloadFrames ==
    {Frame(1, fn, Hdr(4660, q) \o <<bc>> \o d) :
        fn \in {15, 16}, q \in 0..MaxQuantity, bc \in 0..MaxDataLen,
        d \in DataSeqs}

\* The request path of writeMultipleCoils and writeMultipleRegisters, on one
\* connection, over every frame of PayloadFrames.
NextPayload ==
    \/ LoadConfig({ReadmeConfig})
    \/ StartNext
    \/ Accept(1)
    \/ ConnRead(1, PayloadFrames)
    \/ HandlerReceive(1)
    \/ GetClient
    \/ \E connected \in BOOLEAN : HandlerSend(connected)
    \/ \E outcome \in ConcOutcomes : HandlerRoundTrip(outcome, 1)
    \/ HandlerWrite

SpecPayload == Init /\ [][NextPayload]_vars

\* Requests of every function code with data of every length from one byte
\* up to the five fixed bytes and a long tail: quantities and values at the
\* ends of the 16-bit range and around the limits of the client (for the
\* write-multiple codes, whose handlers loop over the quantity, up to
\* 2001), byteCounts from 0 to 255, to slave 1, to slave 0 and to a slave
\* that is not configured.
BoundsWords == {0, 1, 7, 8, 9, 123, 124, 125, 1968, 2000, 65280, 65535}
BoundsQuantities == {0, 1, 7, 8, 9, 123, 124, 1968, 1969, 2001}
BoundsByteCounts == {0, 1, 2, 4, 255}
BoundsLengths == {1, 3, 4, 5, 6, 7, 9, 260}
BoundsTail == Payload(255)
BoundsFrames ==
    {Frame(u, fn, Take(Hdr(4660, w) \o <<0>> \o BoundsTail, k)) :
        u \in {0, 1, 3}, fn \in FunctionCodes \ {15, 16}, w \in BoundsWords,
        k \in BoundsLengths}
    \cup
    {Frame(u, fn, Take(Hdr(4660, q) \o <<bc>> \o BoundsTail, k)) :
        u \in {0, 1, 3}, fn \in {15, 16}, q \in BoundsQuantities,
        bc \in BoundsByteCounts, k \in BoundsLengths}

\* The request path on one connection over every frame of BoundsFrames.
NextBounds ==
    \/ LoadConfig({ReadmeConfig})
    \/ StartNext
    \/ Accept(1)
    \/ ConnRead(1, BoundsFrames)
    \/ HandlerReceive(1)
    \/ GetClient
    \/ \E connected \in BOOLEAN : HandlerSend(connected)
    \/ \E outcome \in ConcOutcomes : HandlerRoundTrip(outcome, 1)
    \/ HandlerWrite

SpecBounds == Init /\ [][NextBounds]_vars

\* The health monitor from Start to Stop, without clients: every outcome of
\* a probe.
NextMonitor ==
    \/ LoadConfig({ReadmeConfig})
    \/ StartNext
    \/ MonTick
    \/ MonExit
    \/ MonRLock
    \/ \E slaveID \in DOMAIN Servers, connected \in BOOLEAN :
            MonProbeSend(slaveID, connected)
    \/ \E outcome \in {"ok"} \cup BackendErrors : MonProbeDone(outcome)
    \/ MonSweepEnd
    \/ \E slaveID \in DOMAIN Servers : IdleClose(slaveID)
    \/ StopNext

SpecMonitor == Init /\ [][NextMonitor]_vars

\* Requests of one client to the two slaves.
StopFrames == {Frame(1, 3, Hdr(0, 2)), Frame(2, 1, Hdr(0, 9))}

\* The gateway with one client connection, started from the README's
\* configuration file with or without its timeout lines.
NextStop ==
    \/ LoadConfig({ReadmeConfig, NoTimeoutConfig})
    \/ StartNext
    \/ Accept(1)
    \/ ConnRead(1, StopFrames)
    \/ HandlerReceive(1)
    \/ GetClient
    \/ \E connected \in BOOLEAN : HandlerSend(connected)
    \/ \E outcome \in ConcOutcomes : HandlerRoundTrip(outcome, 1)
    \/ HandlerWrite
    \/ MonTick
    \/ MonExit
    \/ MonRLock
    \/ \E slaveID \in DOMAIN Servers, connected \in BOOLEAN :
            MonProbeSend(slaveID, connected)
    \/ \E outcome \in ConcOutcomes : MonProbeDone(outcome)
    \/ MonSweepEnd
    \/ \E slaveID \in DOMAIN Servers : IdleClose(slaveID)
    \/ StopNext

\* A round trip is sure to end when the handler has a deadline: the library
\* sets a deadline on the connection (a read timeout on the serial port)
\* only if the handler's Timeout is positive; with Timeout 0 it reads until
\* the device answers.
HasDeadline(slaveID) == clients[slaveID].timeout > 0

RoundTripEnds ==
    /\ h.pc = "roundtrip" /\ HasDeadline(h.p.slaveID)
    /\ \E outcome \in ConcOutcomes : HandlerRoundTrip(outcome, 1)

ProbeEnds ==
    /\ mon.pc = "probe" /\ HasDeadline(mon.cur)
    /\ \E outcome \in ConcOutcomes : MonProbeDone(outcome)

\* Scheduling: a goroutine that can take its next step takes it; a dial ends
\* (the operating system bounds it); a round trip ends if it has a deadline.
\* Nothing makes a client connect or send, the ticker tick, the signal come.
Fairness ==
    /\ WF_vars(StartNext)
    /\ WF_vars(StopCloseServer \/ StopLock \/ StopUnlock \/ Exit
                \/ \E slaveID \in DOMAIN Servers : StopClose(slaveID))
    /\ WF_vars(HandlerReceive(1) \/ GetClient \/ HandlerWrite
                \/ \E connected \in BOOLEAN : HandlerSend(connected))
    /\ WF_vars(RoundTripEnds)
    /\ WF_vars(MonRLock \/ MonSweepEnd
                \/ \E slaveID \in DOMAIN Servers, connected \in BOOLEAN :
                        MonProbeSend(slaveID, connected))
    /\ WF_vars(ProbeEnds)

SpecStop == Init /\ [][NextStop]_vars /\ Fairness

\* Loading each configuration file, then Start.
NextConfig ==
    \/ LoadConfig(ConfigFiles)
    \/ StartNext

SpecConfig == Init /\ [][NextConfig]_vars

-----------------------------------------------------------------------------
(* Properties *)

EightCodes == {1, 2, 3, 4, 5, 6, 15, 16}
Handling == h.pc # "idle"
Replying == h.pc = "write"
Succeeded == Replying /\ h.resp.exception = "Success"

\* The handler has not written to, and is not about to write to, any backend.
NoBackendContact ==
    /\ h.sent = <<>>
    /\ h.pc \notin {"send", "roundtrip"}
    /\ \A s \in DOMAIN Servers : mu[s] # "handler"

\* C1: a successful Write Multiple Coils/Registers answers with exactly the
\* four bytes address, quantity of the request, whatever the quantity.
C1_WriteMultipleEcho ==
    (Succeeded /\ h.handler \in {"writeMultipleCoils", "writeMultipleRegisters"})
        => h.resp.data = Hdr(h.p.address, h.p.quantity)

\* C2: a successful Read Holding/Input Registers with quantity q answers
\* with byte count 2*q followed by the 2*q bytes the backend returned.
C2_ReadRegistersByteCount ==
    (Succeeded /\ h.handler \in {"readHoldingRegisters", "readInputRegisters"})
        => LET q == h.p.quantity
           IN  /\ q >= 1 /\ q <= 125
               /\ Len(h.resp.data) = 1 + 2 * q
               /\ h.resp.data[1] = 2 * q
               /\ SubSeq(h.resp.data, 2, 1 + 2 * q) = h.results
               /\ ResponsePDU(h.frame.fn, h.resp)
                    = <<h.frame.fn, 2 * q>> \o h.results

\* C3: a successful Read Coils/Discrete Inputs with quantity q answers with
\* byte count ceil(q/8) followed by that many bytes, those of the backend.
C3_ReadBitsByteCount ==
    (Succeeded /\ h.handler \in {"readCoils", "readDiscreteInputs"})
        => LET q == h.p.quantity
               n == (q + 7) \div 8
           IN  /\ q >= 1 /\ q <= 2000
               /\ Len(h.resp.data) = 1 + n
               /\ h.resp.data[1] = n
               /\ SubSeq(h.resp.data, 2, 1 + n) = h.results

C3_Witness ==
    /\ Succeeded /\ h.handler = "readCoils"
    /\ h.p.quantity = 2000 /\ Len(h.resp.data) = 251

\* C4: a request for one of the eight codes whose unit is not in the routing
\* table is answered with IllegalDataAddress, and no backend is contacted.
C4_UnknownSlave ==
    (Handling /\ h.frame.fn \in EightCodes /\ h.frame.unit \notin DOMAIN clients)
        => /\ Replying
           /\ h.resp = Response(NoData, "IllegalDataAddress")
           /\ NoBackendContact

C4_Witness ==
    /\ Replying /\ h.frame.fn = 3 /\ h.frame.unit = 3
    /\ Len(h.frame.data) = 4
    /\ h.resp.exception = "IllegalDataAddress"

\* C5: when the backend call of a request to a configured slave fails, the
\* handler answers SlaveDeviceFailure without data, the transporter mutex is
\* free again and the reply can be written; the failing step changes neither
\* the routing table nor any transport, the listener or the function table.
C5_FailureReply ==
    (Replying /\ h.outcome \notin {"none", "ok"})
        => /\ h.p.slaveID \in DOMAIN clients
           /\ h.resp = Response(NoData, "SlaveDeviceFailure")
           /\ \A s \in DOMAIN Servers : mu[s] # "handler"
           /\ ENABLED HandlerWrite

C5_FailureStep ==
    (~Replying /\ h'.pc = "write" /\ h'.outcome \notin {"none", "ok"})
        => /\ clients' = clients
           /\ transport' = transport
           /\ listening' = listening
           /\ function' = function

C5_BackendFailure == []C5_FailureReply /\ [][C5_FailureStep]_vars

C5_Witness ==
    /\ Replying /\ h.outcome = "timeout" /\ h.handler = "writeMultipleCoils"
    /\ transport[h.p.slaveID] = "open"

\* C6: the exception of a response is Success or one of IllegalFunction,
\* IllegalDataAddress, IllegalDataValue, SlaveDeviceFailure.
C6_ClosedExceptions ==
    IF Replying
    THEN h.resp.exception \in {"Success", "IllegalFunction", "IllegalDataAddress",
                               "IllegalDataValue", "SlaveDeviceFailure"}
    ELSE h.resp = NoResp

C6_Witness ==
    /\ Replying /\ h.outcome = "exception"
    /\ h.resp.exception = "SlaveDeviceFailure"

\* The request of the handler is shorter than min bytes, for codes 15 and 16
\* than min or 5+byteCount bytes.
ShorterThan(min) ==
    LET d == h.frame.data
    IN  IF h.frame.fn \in {15, 16}
        THEN Len(d) < min \/ Len(d) < 5 + d[5]
        ELSE Len(d) < 4

MinimumLength(min) ==
    (Handling /\ h.frame.fn \in EightCodes)
        => /\ ShorterThan(min)
                => /\ Replying
                   /\ h.resp = Response(NoData, "IllegalDataAddress")
                   /\ NoBackendContact
           /\ (~ShorterThan(min) /\ h.frame.unit \in DOMAIN Servers)
                => ~(Replying /\ h.resp.exception = "IllegalDataAddress")

\* C7, as claimed: the minimum of codes 15 and 16 is 5+byteCount bytes.
C7_MinimumLengthClaimed == MinimumLength(5)

\* C7, amended: the minimum of codes 15 and 16 is 6 bytes and 5+byteCount
\* bytes; shorter requests are answered with IllegalDataAddress and reach no
\* backend, the others, to a configured slave, are not rejected as malformed.
C7_MinimumLength == MinimumLength(6)

C7_Witness ==
    /\ Replying /\ h.frame.fn = 15 /\ h.frame.unit = 1
    /\ Len(h.frame.data) = 5 /\ h.frame.data[5] = 0
    /\ h.resp.exception = "IllegalDataAddress"

\* C8: Write Single Coil forwards 0xFF00 as ON and 0x0000 as OFF; with any
\* other value nothing is sent to a backend and the request fails.
C8_WriteSingleCoil ==
    (Handling /\ h.handler = "writeSingleCoil" /\ Len(h.frame.data) >= 4)
        => LET value == U16(h.frame.data[3], h.frame.data[4])
           IN  /\ value \notin {65280, 0}
                    => /\ NoBackendContact
                       /\ Replying => h.resp.exception # "Success"
               /\ h.sent # <<>>
                    => /\ Len(h.sent) = 1
                       /\ h.sent[1].call.op = "WriteSingleCoil"
                       /\ (h.sent[1].call.quantity = 65280) = (value = 65280)
                       /\ (h.sent[1].call.quantity = 0) = (value = 0)

C8_Witness ==
    /\ Succeeded /\ h.handler = "writeSingleCoil"
    /\ h.sent # <<>> /\ h.sent[1].call.quantity = 65280

\* C9: once the handlers are registered, exactly the eight codes have a
\* forwarding handler; a request with any other code is answered with
\* IllegalFunction and no backend is contacted.
C9_IllegalFunction ==
    /\ function # [fn \in FunctionCodes |-> "nil"]
        => /\ {fn \in FunctionCodes : function[fn] \in ForwardingHandlers}
                = EightCodes
           /\ \A fn \in FunctionCodes \ EightCodes : function[fn] = "nil"
    /\ (Handling /\ h.frame.fn \notin EightCodes)
        => /\ Replying
           /\ h.resp = Response(NoData, "IllegalFunction")
           /\ ResponsePDU(h.frame.fn, h.resp)
                = <<ExceptionFunction(h.frame.fn), 1>>
           /\ NoBackendContact

C9_Witness ==
    /\ Replying /\ h.frame.fn = 7 /\ h.frame.unit = 1
    /\ h.resp.exception = "IllegalFunction"

\* The goroutines whose round trip with a slave is in progress.
RoundTrips(s) ==
    {t \in {"handler", "monitor"} :
        \/ t = "handler" /\ h.pc = "roundtrip" /\ h.p.slaveID = s
        \/ t = "monitor" /\ mon.pc = "probe" /\ mon.cur = s}

\* C10: for every slave at most one round trip is in progress, and the
\* goroutine making it holds the transporter mutex until the answer is in.
C10_RoundTripExclusion ==
    \A s \in DOMAIN Servers :
        /\ Cardinality(RoundTrips(s)) <= 1
        /\ \A t \in RoundTrips(s) : mu[s] = t

\* A request's round trip with slave 1 while the monitor's sweep still has
\* slave 1 to probe, and a second connection has a request queued.
C10_Witness ==
    /\ h.pc = "roundtrip" /\ h.p.slaveID = 1
    /\ mon.pc = "sweep" /\ 1 \in mon.todo
    /\ \E c \in Conns : conns[c].pc = "queued"

\* C11: while a round trip with slave b is in progress, a request to another
\* configured slave a is not held back: waiting on its connection it can be
\* taken up by a handler, in getClient it can look up its client, and before
\* Send, slave a having no round trip of its own, it can start its round trip.
C11_OtherSlaveNotBlocked ==
    Alive =>
        \A a \in DOMAIN Servers, b \in DOMAIN Servers :
            (a # b /\ RoundTrips(b) # {}) =>
                /\ \A c \in Conns :
                        (/\ conns[c].pc = "queued"
                         /\ conns[c].frame.unit = a
                         /\ conns[c].frame.fn \in EightCodes)
                            => ENABLED HandlerReceive(c)
                /\ (h.pc = "getClient" /\ h.p.slaveID = a)
                        => ENABLED GetClient
                /\ (h.pc = "send" /\ h.p.slaveID = a /\ RoundTrips(a) = {})
                        => ENABLED (\E connected \in BOOLEAN :
                                        HandlerSend(connected))

\* C12: Start has opened the transport of every configured slave before the
\* listener accepts: whenever the gateway listens every transport is open,
\* and no request and no probe finds a transport that cannot be opened.
C12_TransportsOpenedByStart ==
    /\ listening => \A s \in DOMAIN config.Servers : transport[s] = "open"
    /\ h.outcome # "dial error"
    /\ \A s \in DOMAIN clients : clients[s].lastError # "dial error"

\* ListenTCP has been called and has succeeded.
Listened ==
    mainPc.pc \in {"goMonitor", "running", "closeServer", "lock", "closing",
                   "stopped", "exited"}

ProbeReturned(s) ==
    mon.pc \in {"sweep", "probe"} /\ s \in mon.todo /\ s \notin mon'.todo

\* C14, as claimed: the probe of a connection logs a line exactly when the
\* connection goes from healthy to failing or from failing to healthy, and
\* logs nothing when it stays healthy or stays failing.
C14_LogPerClassChange ==
    [][\A s \in DOMAIN Servers :
          ProbeReturned(s) =>
              ((mon'.log # "none")
                  <=> ((clients[s].lastError = "nil")
                          # (clients'[s].lastError = "nil")))]_vars

\* C14, amended: the probe of a connection logs one line, "connection
\* exception", exactly when it fails and the connection was healthy or had
\* failed with another error text, one line, "connection restored", exactly
\* when it succeeds and the connection was failing, and nothing when it
\* succeeds again or fails with the same error text again; no other step of
\* the monitor logs a line.
C14_LogPerTransition ==
    [][/\ \A s \in DOMAIN Servers :
            ProbeReturned(s) =>
              /\ (mon'.log = "connection exception")
                    <=> /\ clients'[s].lastError # "nil"
                        /\ clients'[s].lastError # clients[s].lastError
              /\ (mon'.log = "connection restored")
                    <=> /\ clients'[s].lastError = "nil"
                        /\ clients[s].lastError # "nil"
              /\ mon'.log \in {"none", "connection exception",
                                "connection restored"}
       /\ (\A s \in DOMAIN Servers : ~ProbeReturned(s))
            => mon'.log \in {"none", mon.log}]_vars

\* A probe of slave 1 has logged the restoration while slave 2 still fails
\* and is about to be probed.
C14_Witness ==
    /\ mon.pc = "sweep" /\ mon.log = "connection restored"
    /\ mon.todo = {2}
    /\ clients[1].lastError = "nil" /\ clients[1].lastConn = 1
    /\ clients[2].lastError = "exception"

\* C15: when the backend call of a request has returned, the client of that
\* slave has recorded it: after a success lastConn is set (not the zero time)
\* and lastError is nil, after a failure lastError is that failure.
C15_RequestRecordsHealth ==
    (Replying /\ h.outcome # "none") =>
        LET client == clients[h.p.slaveID]
        IN  IF h.outcome = "ok"
            THEN client.lastConn # 0 /\ client.lastError = "nil"
            ELSE client.lastError = h.outcome

\* C16: when Stop returns the listener is closed and the transport of every
\* client of the routing table is closed.
C16_StopClosesEverything ==
    [][(mainPc.pc = "closing" /\ mainPc'.pc = "stopped") =>
          /\ ~listening'
          /\ \A s \in DOMAIN clients : transport'[s] = "closed"]_vars

\* C17 (its second half, a safety property): once Stop has returned the
\* monitor issues no probe: no step of the monitor sends a probe or finds a
\* transport it cannot open.
C17_NoProbeAfterStop ==
    [][mainPc.pc = "stopped" =>
          ~(\E slaveID \in DOMAIN Servers, connected \in BOOLEAN :
                MonProbeSend(slaveID, connected))]_vars

\* Stop has been called and has not returned.
InStop == mainPc.pc \in {"closeServer", "lock", "closing"}

\* C18: under fair scheduling, Stop, once called, returns.
C18_StopReturns == InStop ~> (mainPc.pc = "stopped")

\* loadConfig has succeeded.
Validated == mainPc.pc \notin {"main", "fatal"}

\* C19: once validation has succeeded, the configuration of the forwarder
\* has every default applied (applying the defaults again changes nothing):
\* the listen port and every server's timeout are positive, a TCP server's
\* port is positive, an RTU server's baud rate, data bits and stop bits are
\* positive and its parity is set; every client has a positive timeout.
C19_DefaultsApplied ==
    Validated =>
        /\ config.ListenPort > 0
        /\ validateConfig(config).C = config
        /\ \A s \in DOMAIN config.Servers :
              LET server == config.Servers[s]
              IN  /\ validateServer(s, server).server = server
                  /\ server.Timeout > 0
                  /\ server.ConnType = "tcp" => server.Port > 0
                  /\ server.ConnType = "rtu" =>
                        /\ server.BaudRate > 0 /\ server.DataBits > 0
                        /\ server.StopBits > 0 /\ server.Parity # ""
        /\ \A s \in DOMAIN clients : clients[s].timeout > 0

\* Stop has not been called.
BeforeStop == mainPc.pc \in {"main", "start", "initClients", "goMonitor",
                             "running"}

\* This step closes the open transport of slave s.
Closes(s) == transport[s] = "open" /\ transport'[s] = "closed"

\* This step ends a client call of a handler or of the monitor.
CallReturns ==
    \/ h.pc \in {"send", "roundtrip"} /\ h'.pc = "write"
    \/ mon.pc \in {"sweep", "probe"} /\ mon'.todo # mon.todo

-----------------------------------------------------------------------------
-----------------------------------------------------------------------------
(* Accesses to the fields of a modbusClient.  For each task, the fields of *)
(* the client of slave s that the code between its present position and    *)
(* its next one reads and writes.                                          *)

NoAccess == [read |-> {}, write |-> {}]
HealthFields == {"lastError", "lastConn"}

\* initClients: createClient builds the whole struct
startAccess(s) ==
    IF mainPc.pc = "initClients" /\ s \in mainPc.todo
    THEN [read |-> {},
          write |-> {"client", "handler", "connType", "timeout"}
                    \cup HealthFields]
    ELSE NoAccess

\* Mutant of handlerAccess: the handlers record the health of the client
\* after their call.
handlerAccess_RecordsHealth(s) ==
    IF h.pc \in {"send", "roundtrip"} /\ h.p.slaveID = s
    THEN [read |-> {"client"}, write |-> HealthFields]
    ELSE NoAccess

\* the eight handlers: client.client.Xxx(...) and nothing else of the client
handlerAccess(s) ==
    IF h.pc \in {"send", "roundtrip"} /\ h.p.slaveID = s
    THEN [read |-> {"client"}, write |-> {}]
    ELSE NoAccess

\* checkConnections, the body of its loop
monitorAccess(s) ==
    IF \/ mon.pc = "sweep" /\ s \in mon.todo
       \/ mon.pc = "probe" /\ mon.cur = s
    THEN [read |-> {"client", "lastError"}, write |-> HealthFields]
    ELSE NoAccess

\* Stop, the body of its loop
stopAccess(s) ==
    IF mainPc.pc = "closing" /\ s \in mainPc.todo
    THEN [read |-> {"handler"}, write |-> {}]
    ELSE NoAccess

Tasks == {"main", "handler", "monitor"}
Access(task, s) ==
    CASE task = "handler" -> handlerAccess(s)
      [] task = "monitor" -> monitorAccess(s)
      [] OTHER -> [read |-> startAccess(s).read \cup stopAccess(s).read,
                   write |-> startAccess(s).write \cup stopAccess(s).write]

\* Two tasks are at once in code that touches lastError or lastConn of the
\* same client, one of them writing.
Race(s) ==
    \E t1, t2 \in Tasks :
        /\ t1 # t2
        /\ \E f \in HealthFields :
                /\ f \in Access(t1, s).write
                /\ f \in Access(t2, s).read \cup Access(t2, s).write

\* C22: lastError and lastConn of a client are never accessed by two tasks
\* at once with one of them writing: in every interleaving of requests, the
\* monitor and Stop no state has such a pair of accesses, and every step
\* that changes one of the two fields is a step of the one task that is in
\* code writing it.
C22_NoHealthFieldRace ==
    [][/\ \A s \in DOMAIN Servers : ~Race(s)'
       /\ \A s \in DOMAIN clients \cap DOMAIN clients' :
            \/ /\ clients'[s].lastError = clients[s].lastError
               /\ clients'[s].lastConn = clients[s].lastConn
            \/ /\ \E f \in HealthFields : f \in monitorAccess(s).write
               /\ h' = h /\ mainPc' = mainPc
       /\ \A s \in DOMAIN clients' \ DOMAIN clients :
            HealthFields \subseteq startAccess(s).write]_vars

C22_Witness ==
    /\ h.pc = "roundtrip" /\ h.p.slaveID = 1
    /\ mon.pc = "sweep" /\ 1 \in mon.todo
    /\ clients[1].lastError # "nil"
    /\ mainPc.pc = "lock"

-----------------------------------------------------------------------------
\* The data bytes of a write-multiple request: the byteCount bytes after
\* the five fixed ones.
RequestData(frame) == SubSeq(frame.data, 6, 5 + frame.data[5])

\* C23: Write Multiple Coils with quantity q and packed data d.  The
\* payload handed to the backend has ceil(q/8) bytes; bit i mod 8 of byte
\* i div 8 is the same bit of d for every i < q that lies within d; every
\* other bit, the unused high bits of the last byte among them, is zero.
\* So unpacking to q booleans and packing again keeps the first q bits.
C23_CoilPacking ==
    h.handler = "writeMultipleCoils" /\ h.sent # <<>> =>
        LET q == U16(h.frame.data[3], h.frame.data[4])
            d == RequestData(h.frame)
            payload == h.sent[1].call.payload
        IN  /\ 8 * Len(payload) >= q /\ 8 * Len(payload) < q + 8
            /\ \A i \in 0..(8 * Len(payload) - 1) :
                    BitSet(payload[(i \div 8) + 1], i % 8)
                    = (/\ i < q
                       /\ i \div 8 < Len(d)
                       /\ BitSet(d[(i \div 8) + 1], i % 8))
            /\ \A b \in 1..Len(payload) : payload[b] \in 0..255

C23_Witness ==
    /\ h.handler = "writeMultipleCoils" /\ h.sent # <<>>
    /\ h.frame.data = Hdr(4660, 11) \o <<2, 165, 255>>
    /\ h.sent[1].call.payload = <<165, 7>>

-----------------------------------------------------------------------------
\* A write-multiple request that passes the length checks of its parser.
LongEnough(frame) ==
    Len(frame.data) >= 6 /\ Len(frame.data) >= 5 + frame.data[5]

\* C24: Write Multiple Registers with quantity q and byteCount b.  The
\* payload handed to the backend has 2*q bytes; register i is bytes 2i and
\* 2i+1 of the request data when both lie within the b data bytes, and zero
\* otherwise.  A request to a configured slave that passes the length
\* checks, with a quantity the client accepts, is sent on whether or not b
\* equals 2*q: it is padded with zeros or cut, never rejected.
C24_RegisterPayload ==
    h.handler = "writeMultipleRegisters" /\ h.pc \in {"roundtrip", "write"} =>
        LET q == U16(h.frame.data[3], h.frame.data[4])
            d == RequestData(h.frame)
        IN  /\ h.sent # <<>> =>
                LET payload == h.sent[1].call.payload
                IN  /\ Len(payload) = 2 * q
                    /\ \A i \in 0..(q - 1) :
                            IF 2 * i + 1 < Len(d)
                            THEN /\ payload[2 * i + 1] = d[2 * i + 1]
                                 /\ payload[2 * i + 2] = d[2 * i + 2]
                            ELSE /\ payload[2 * i + 1] = 0
                                 /\ payload[2 * i + 2] = 0
            /\ /\ LongEnough(h.frame)
               /\ h.frame.unit \in DOMAIN config.Servers
               /\ q >= 1 /\ q <= 123
               => \/ h.sent # <<>>
                  \/ h.outcome = "dial error"

C24_Witness ==
    /\ h.handler = "writeMultipleRegisters" /\ h.pc = "write"
    /\ h.outcome = "ok"
    /\ h.frame.data = Hdr(4660, 2) \o <<3, 165, 255, 165>>
    /\ h.sent[1].call.payload = <<165, 255, 0, 0>>

-----------------------------------------------------------------------------
(* Index and slice expressions of the parsers and handlers.  x[i] of a     *)
(* buffer of length len is Idx(line, i, len); x[lo:hi] is                  *)
(* Slc(line, lo, hi, len).  Go panics unless 0 <= lo <= hi <= len (for an  *)
(* index, i < len).                                                        *)

Idx(line, i, len) == [line |-> line, lo |-> i, hi |-> i + 1, len |-> len]
Slc(line, lo, hi, len) == [line |-> line, lo |-> lo, hi |-> hi, len |-> len]
InBounds(a) == 0 <= a.lo /\ a.lo <= a.hi /\ a.hi <= a.len

\* getSlaveID: frame.Bytes()[6]
getSlaveIDSlices(frame) ==
    IF FrameBytesLen(frame) < 7 THEN {}
    ELSE {Idx(581, 6, FrameBytesLen(frame))}

\* parseRequest and parseWriteSingleRequest: data[0] .. data[3]
parseRequestSlices(frame) ==
    LET n == Len(frame.data)
    IN  IF n < 4 THEN {}
        ELSE getSlaveIDSlices(frame) \cup
             (IF getSlaveID(frame) = 0
                 \/ getSlaveID(frame) \notin DOMAIN config.Servers
              THEN {}
              ELSE {Idx(516, 0, n), Idx(516, 1, n),
                    Idx(517, 2, n), Idx(517, 3, n)})

\* parseWriteMultipleRequest: frameData[0] .. frameData[4], then
\* frameData[5 : 5+byteCount]
parseWriteMultipleRequestSlices(frame) ==
    LET n == Len(frame.data)
    IN  IF n < 6 THEN {}
        ELSE getSlaveIDSlices(frame) \cup
             (IF getSlaveID(frame) = 0
                 \/ getSlaveID(frame) \notin DOMAIN config.Servers
              THEN {}
              ELSE {Idx(564, 0, n), Idx(564, 1, n), Idx(565, 2, n),
                    Idx(565, 3, n), Idx(566, 4, n)} \cup
                   (LET byteCount == frame.data[5]
                    IN  IF n < 5 + byteCount THEN {}
                        ELSE {Slc(572, 5, 5 + byteCount, n)}))

\* readCoils, readDiscreteInputs: response[0], response[1:]
readBitsSlices(results) ==
    LET n == 1 + Len(results)
    IN  {Idx(261, 0, n), Slc(262, 1, n, n)}

\* readHoldingRegisters, readInputRegisters: response[0], response[1+i]
readRegistersSlices(results) ==
    LET n == 1 + Len(results)
    IN  {Idx(317, 0, n)} \cup {Idx(319, 1 + i, n) : i \in 0..(Len(results) - 1)}

\* writeSingleCoil, writeSingleRegister: frame.GetData()[0:4]
writeSingleSlices(frameData) ==
    {Slc(378, 0, 4, Len(frameData))}

\* writeMultipleCoils, the two loops: coils[i], data[byteIndex],
\* coilBytes[byteIndex]
coilsSlices(quantity, data) ==
    LET cs == coils(quantity, data)
        used == {i \in 0..(quantity - 1) : i \div 8 < Len(data)}
        set == {i \in 0..(quantity - 1) : cs[i]}
    IN  {Idx(425, i, quantity) : i \in used}
        \cup {Idx(425, i \div 8, Len(data)) : i \in used}
        \cup {Idx(432, i, quantity) : i \in 0..(quantity - 1)}
        \cup {Idx(435, i \div 8, (quantity + 7) \div 8) : i \in set}

\* writeMultipleRegisters, the two loops: registers[i], data[i*2],
\* data[i*2+1], registerBytes[i*2], registerBytes[i*2+1]
registersSlices(quantity, data) ==
    LET used == {i \in 0..(quantity - 1) : i * 2 + 1 < Len(data)}
    IN  {Idx(472, i, quantity) : i \in used}
        \cup {Idx(472, i * 2, Len(data)) : i \in used}
        \cup {Idx(472, i * 2 + 1, Len(data)) : i \in used}
        \cup {Idx(478, i * 2, quantity * 2) : i \in 0..(quantity - 1)}
        \cup {Idx(479, i * 2 + 1, quantity * 2) : i \in 0..(quantity - 1)}

\* Mutant of writeMultipleSlices: quantity*4 bytes without the clipping.
writeMultipleSlices_Unclipped(frameData, quantity) ==
    {Slc(452, 0, quantity * 4, Len(frameData))}

\* writeMultipleCoils, writeMultipleRegisters: frameData[0:maxLen] or
\* frameData[0 : quantity*4]
writeMultipleSlices(frameData, quantity) ==
    LET maxLen == Len(frameData)
    IN  IF quantity * 4 > maxLen
        THEN {Slc(450, 0, maxLen, maxLen)}
        ELSE {Slc(452, 0, quantity * 4, maxLen)}

\* The expressions the handler has evaluated when it returns its response.
handlerSlices ==
    LET reads == h.handler \in {"readCoils", "readDiscreteInputs",
                                "readHoldingRegisters", "readInputRegisters"}
        singles == h.handler \in {"writeSingleCoil", "writeSingleRegister"}
        parsed == IF reads \/ singles THEN parseRequestSlices(h.frame)
                  ELSE parseWriteMultipleRequestSlices(h.frame)
        converted ==
            IF h.p.err \/ h.p.slaveID \notin DOMAIN clients THEN {}
            ELSE IF h.handler = "writeMultipleCoils"
            THEN coilsSlices(h.p.quantity, h.p.data)
            ELSE IF h.handler = "writeMultipleRegisters"
            THEN registersSlices(h.p.quantity, h.p.data)
            ELSE {}
        answered ==
            IF h.outcome # "ok" THEN {}
            ELSE IF h.handler \in {"readCoils", "readDiscreteInputs"}
            THEN readBitsSlices(h.results)
            ELSE IF reads THEN readRegistersSlices(h.results)
            ELSE IF singles THEN writeSingleSlices(h.frame.data)
            ELSE writeMultipleSlices(h.frame.data, h.p.quantity)
    IN  parsed \cup converted \cup answered

\* C25: no handler indexes or slices outside a buffer.  For every length of
\* the frame data, every address, quantity and value, every byteCount and
\* every length of the backend's result, each index and slice expression
\* the handler and its parser have evaluated when the handler returns lies
\* within its buffer.
C25_SlicesInBounds ==
    h.pc = "write" /\ h.handler \in ForwardingHandlers =>
        \A a \in handlerSlices : InBounds(a)

C25_Witness ==
    /\ h.pc = "write" /\ h.handler = "writeMultipleCoils"
    /\ h.outcome = "ok"
    /\ h.p.quantity = 1968 /\ Len(h.p.data) = 255
    /\ Slc(452, 0, 7872, 260) \notin handlerSlices
    /\ Slc(450, 0, 260, 260) \in handlerSlices
    /\ Slc(572, 5, 260, 260) \in handlerSlices

====
